---------------------------- MODULE Spec2Model ----------------------------
(***************************************************************************)
(* A model of nicer (src/src/main.rs): a supervisor that lowers its own    *)
(* priority, spawns one child, optionally takes a wakelock, installs a     *)
(* Ctrl-C handler that forwards SIGINT to the child, waits for the child   *)
(* and exits with the child's translated exit status.                      *)
(*                                                                         *)
(* Two threads of the supervisor are modelled: the main thread (pc) and    *)
(* the handler thread that ctrlc::set_handler starts (hpc).  The child     *)
(* process and the user sending interrupts are the environment.            *)
(***************************************************************************)
EXTENDS Integers, Sequences, FiniteSets

\* ------------------------------------------------------------------ bounds
MaxInterrupts == 2
MaxRuns == 2

\* ------------------------------------------------------- input domains
Platforms == {"linux", "macos", "windows"}
Unix == {"linux", "macos"}

\* A program name is a sequence of characters; "<FF>" stands for a byte that
\* is not valid UTF-8.
Programs == { <<"l", "s">>, <<"a", "\"", "<FF>">> }
Pids == {7, 42}
ExitCodes == {0, 1, 255}
Signals == {2, 9, 15}
SyscallStatus == {0, -1}
Errnos == {0, 1, 3}

\* Option<T> is the empty set (None) or a singleton (Some(x)).
None == {}
Some(x) == {x}
TheOne(o) == CHOOSE x \in o : TRUE
UnwrapOr(o, d) == IF o = None THEN d ELSE TheOne(o)

VARIABLES
    platform,       \* the cfg the binary was built for
    caffeinate,     \* opt.caffeinate
    program,        \* opt.program
    pc,             \* position of the main thread
    exitCode,       \* Option: the supervisor's exit code once it has one
    failedStep,     \* the step whose error main returned, or "none"
    log,            \* history: steps of main in the order they started
    done,           \* history: steps of main that completed successfully
    sysCalls,       \* history: platform calls of nice_process and their results
    spawnAttempts,  \* history: number of calls of Command::spawn
    cmd,            \* Option: the Child handle (its process id)
    childState,     \* "none", "running", "zombie" (terminated), "reaped"
    childPid,       \* Option: the pid the OS gave the child
    childOutcome,   \* the ExitStatus the OS holds for the terminated child
    childSigints,   \* SIGINTs the child received from the handler while running
    strayKills,     \* SIGINTs the handler sent to a pid no longer the child's
    wakelockCalls,  \* history: calls of wakelock()
    handlerInstalled, \* ctrlc::set_handler has succeeded
    lockHolder,     \* owner of the Mutex around the Child: "none", "main", "handler"
    status,         \* the ExitStatus wait() returned
    interrupts,     \* number of interrupts delivered to the supervisor so far
    pendingInts,    \* interrupts caught by ctrlc and not yet handled
    hpc,            \* position of the handler thread
    hpid,           \* Option: the pid the running handler invocation read
    hLockPc,        \* history, Option: where main was when that invocation locked
    run,            \* which invocation of the tool this is
    prev            \* what the previous invocation ended with

vars == << platform, caffeinate, program, pc, exitCode, failedStep, log, done,
           sysCalls, spawnAttempts, cmd, childState, childPid, childOutcome,
           childSigints, strayKills, wakelockCalls, handlerInstalled,
           lockHolder, status, interrupts, pendingInts, hpc, hpid, hLockPc,
           run, prev >>

invocationVars == << platform, caffeinate, program >>
runVars == << run, prev >>
childVars == << childState, childPid, childOutcome, childSigints, strayKills >>
handlerVars == << handlerInstalled, interrupts, pendingInts, hpc, hpid, hLockPc >>

\* ------------------------------------------------------------ exit status
NoStatus == [code |-> None, signal |-> None]
Exited(c) == [code |-> Some(c), signal |-> None]
Signaled(s) == [code |-> None, signal |-> Some(s)]

\* The statuses a terminated child can have: an exit code, or, on unix, the
\* signal that killed it.
Outcomes(plat) ==
    { Exited(c) : c \in ExitCodes } \cup
    (IF plat \in Unix THEN { Signaled(s) : s \in Signals } ELSE {})

\* process::exit(i): on unix the parent sees the low 8 bits of i.
ProcessExit(plat, i) == IF plat \in Unix THEN i % 256 ELSE i

\* A translator that only tells success from failure.
ExitCodeOf_SuccessOrFailure(plat, st) ==
    IF st.code # None
    THEN (IF TheOne(st.code) = 0 THEN 0 ELSE 1)
    ELSE IF plat \in Unix
         THEN UnwrapOr(st.signal, 9) + 128
         ELSE 127

\* A translator that takes every signal for SIGKILL.
ExitCodeOf_AlwaysKill(plat, st) ==
    IF st.code # None
    THEN TheOne(st.code)
    ELSE IF plat \in Unix
         THEN 9 + 128
         ELSE 127

\* A translator that assumes SIGTERM when the signal is unknown.
ExitCodeOf_TermFallback(plat, st) ==
    IF st.code # None
    THEN TheOne(st.code)
    ELSE IF plat \in Unix
         THEN UnwrapOr(st.signal, 15) + 128
         ELSE 127

\* main.rs:180-191, the match on status.code().
ExitCodeOf(plat, st) ==
    IF st.code # None
    THEN TheOne(st.code)
    ELSE IF plat \in Unix
         THEN UnwrapOr(st.signal, 9) + 128
         ELSE 127

\* ------------------------------------------------------- wakelock details
\* Path::to_string_lossy: invalid bytes become U+FFFD.
ToStringLossy(p) ==
    [i \in 1..Len(p) |-> IF p[i] = "<FF>" THEN "<U+FFFD>" ELSE p[i]]

RECURSIVE EscapeDebug(_)
\* The body of {:?} for a str: quotes and backslashes are escaped.
EscapeDebug(s) ==
    IF s = <<>> THEN <<>>
    ELSE (IF Head(s) \in {"\"", "\\"} THEN <<"\\", Head(s)>> ELSE <<Head(s)>>)
         \o EscapeDebug(Tail(s))

\* {:?} for a str.
DebugFmt(s) == <<"\"">> \o EscapeDebug(s) \o <<"\"">>

Digit(d) == <<"0", "1", "2", "3", "4", "5", "6", "7", "8", "9">>[d + 1]

RECURSIVE Decimal(_)
\* {} for a u32.
Decimal(n) == IF n < 10 THEN <<Digit(n)>> ELSE Decimal(n \div 10) \o <<Digit(n % 10)>>

\* Details that name the program only.
Details_NoPid(process, pid) ==
    <<"Hi from Rust! We're keeping your Mac awake on behalf of ">>
    \o DebugFmt(process)

\* main.rs:95, the format! of the assertion's details.
Details(process, pid) ==
    <<"Hi from Rust! We're keeping your Mac awake on behalf of ">>
    \o DebugFmt(process) \o <<" ", "(", "p", "i", "d", " ">> \o Decimal(pid) \o <<")">>

\* wakelock(process, pid) per platform: what the call does with its arguments.
WakelockCall(plat, process, pid) ==
    IF plat = "macos"
    THEN [kind |-> "IOPMAssertionCreateWithDescription", process |-> process,
          pid |-> pid, details |-> Details(process, pid)]
    ELSE IF plat = "windows"
    THEN [kind |-> "SetThreadExecutionState", process |-> process,
          pid |-> pid, details |-> <<>>]
    ELSE [kind |-> "eprintln", process |-> process, pid |-> pid, details |-> <<>>]

\* ------------------------------------------------------------------- Init
NoPrev == [valid |-> FALSE, outcome |-> NoStatus, exitCode |-> None,
           caffeinate |-> FALSE, interrupted |-> FALSE]

FreshRun ==
    /\ pc = "nice"
    /\ exitCode = None
    /\ failedStep = "none"
    /\ log = <<>>
    /\ done = {}
    /\ sysCalls = <<>>
    /\ spawnAttempts = 0
    /\ cmd = None
    /\ childState = "none"
    /\ childPid = None
    /\ childOutcome = NoStatus
    /\ childSigints = 0
    /\ strayKills = 0
    /\ wakelockCalls = <<>>
    /\ handlerInstalled = FALSE
    /\ lockHolder = "none"
    /\ status = NoStatus
    /\ interrupts = 0
    /\ pendingInts = 0
    /\ hpc = "none"
    /\ hpid = None
    /\ hLockPc = None

Init ==
    /\ platform \in Platforms
    /\ caffeinate \in BOOLEAN
    /\ program \in Programs
    /\ run = 1
    /\ prev = NoPrev
    /\ FreshRun

Alive == pc \notin {"exited", "failed", "killed"}

\* main returns Err(e): the runtime prints the error and exits with code 1.
Fail(step) ==
    /\ pc' = "failed"
    /\ failedStep' = step
    /\ exitCode' = Some(1)

\* ------------------------------------------------------- priority adjuster
\* An adjuster for which every non-zero status is an error.
TreatedAsSuccess_StatusOnly(st, errno) == st = 0

\* match status { 0 => ok, _ => match raw_os_error() { Some(0) => ok, _ => Err } }
TreatedAsSuccess(st, errno) == st = 0 \/ errno = 0

\* What a platform call reported: whether it signalled failure, and the OS
\* error value a read of last_os_error() gives afterwards.
SysResult(call, failed, errno) == [call |-> call, failed |-> failed, errno |-> errno]

\* The OS error value is read only after a call that returned non-zero.
ErrnoAfter(st) == IF st = 0 THEN {0} ELSE Errnos

\* main.rs:13-25 (linux): setpriority(PRIO_PROCESS, 0, 19).
NiceLinuxCpu ==
    /\ pc = "nice" /\ platform = "linux"
    /\ \E st \in SyscallStatus : \E errno \in ErrnoAfter(st) :
        /\ sysCalls' = Append(sysCalls, SysResult("setpriority", st # 0, errno))
        /\ log' = Append(log, "adjust")
        /\ IF TreatedAsSuccess(st, errno)
           THEN /\ pc' = "nice_io"
                /\ UNCHANGED << exitCode, failedStep >>
           ELSE Fail("adjust")
    /\ UNCHANGED << invocationVars, runVars, childVars, handlerVars, done,
                    spawnAttempts, cmd, wakelockCalls, lockHolder, status >>

\* An I/O priority step whose result is not looked at.
NiceLinuxIo_Unchecked ==
    /\ pc = "nice_io"
    /\ \E st \in SyscallStatus : \E errno \in ErrnoAfter(st) :
        /\ sysCalls' = Append(sysCalls, SysResult("ioprio_set", st # 0, errno))
        /\ pc' = "spawn"
        /\ done' = done \cup {"adjust"}
        /\ UNCHANGED << exitCode, failedStep >>
    /\ UNCHANGED << invocationVars, runVars, childVars, handlerVars, log,
                    spawnAttempts, cmd, wakelockCalls, lockHolder, status >>

\* main.rs:34-46 (linux): syscall(SYS_ioprio_set, IOPRIO_WHO_PGRP, 0, idle).
NiceLinuxIo ==
    /\ pc = "nice_io"
    /\ \E st \in SyscallStatus : \E errno \in ErrnoAfter(st) :
        /\ sysCalls' = Append(sysCalls, SysResult("ioprio_set", st # 0, errno))
        /\ IF TreatedAsSuccess(st, errno)
           THEN /\ pc' = "spawn"
                /\ done' = done \cup {"adjust"}
                /\ UNCHANGED << exitCode, failedStep >>
           ELSE /\ Fail("adjust")
                /\ UNCHANGED done
    /\ UNCHANGED << invocationVars, runVars, childVars, handlerVars, log,
                    spawnAttempts, cmd, wakelockCalls, lockHolder, status >>

\* main.rs:50-73 (macos): setpriority(PRIO_DARWIN_PROCESS, 0, PRIO_DARWIN_BG).
NiceMacos ==
    /\ pc = "nice" /\ platform = "macos"
    /\ \E st \in SyscallStatus : \E errno \in ErrnoAfter(st) :
        /\ sysCalls' = Append(sysCalls, SysResult("setpriority", st # 0, errno))
        /\ log' = Append(log, "adjust")
        /\ IF TreatedAsSuccess(st, errno)
           THEN /\ pc' = "spawn"
                /\ done' = done \cup {"adjust"}
                /\ UNCHANGED << exitCode, failedStep >>
           ELSE /\ Fail("adjust")
                /\ UNCHANGED done
    /\ UNCHANGED << invocationVars, runVars, childVars, handlerVars,
                    spawnAttempts, cmd, wakelockCalls, lockHolder, status >>

\* main.rs:75-83 (windows): SetPriorityClass(.., IDLE_PRIORITY_CLASS) is Ok or Err.
NiceWindows ==
    /\ pc = "nice" /\ platform = "windows"
    /\ \E ok \in BOOLEAN : \E errno \in (IF ok THEN {0} ELSE Errnos) :
        /\ sysCalls' = Append(sysCalls, SysResult("SetPriorityClass", ~ok, errno))
        /\ log' = Append(log, "adjust")
        /\ IF ok
           THEN /\ pc' = "spawn"
                /\ done' = done \cup {"adjust"}
                /\ UNCHANGED << exitCode, failedStep >>
           ELSE /\ Fail("adjust")
                /\ UNCHANGED done
    /\ UNCHANGED << invocationVars, runVars, childVars, handlerVars,
                    spawnAttempts, cmd, wakelockCalls, lockHolder, status >>

\* ------------------------------------------------------------ the launcher
\* A launcher that tries again when the spawn fails.
Spawn_Retry ==
    /\ pc = "spawn"
    /\ spawnAttempts < 3
    /\ spawnAttempts' = spawnAttempts + 1
    /\ log' = IF spawnAttempts = 0 THEN Append(log, "spawn") ELSE log
    /\ \/ \E p \in Pids :
            /\ cmd' = Some(p)
            /\ childPid' = Some(p)
            /\ childState' = "running"
            /\ pc' = "caffeinate"
            /\ done' = done \cup {"spawn"}
            /\ UNCHANGED << exitCode, failedStep >>
       \/ /\ failedStep' = "spawn"
          /\ UNCHANGED << pc, exitCode, cmd, childPid, childState, done >>
    /\ UNCHANGED << invocationVars, runVars, handlerVars, sysCalls,
                    childOutcome, childSigints, strayKills, wakelockCalls,
                    lockHolder, status >>

\* main.rs:159: Command::new(..).args(..).spawn().context(..)?
Spawn ==
    /\ pc = "spawn"
    /\ spawnAttempts' = spawnAttempts + 1
    /\ log' = Append(log, "spawn")
    /\ \/ \E p \in Pids :
            /\ cmd' = Some(p)
            /\ childPid' = Some(p)
            /\ childState' = "running"
            /\ pc' = "caffeinate"
            /\ done' = done \cup {"spawn"}
            /\ UNCHANGED << exitCode, failedStep >>
       \/ /\ Fail("spawn")
          /\ UNCHANGED << cmd, childPid, childState, done >>
    /\ UNCHANGED << invocationVars, runVars, handlerVars, sysCalls,
                    childOutcome, childSigints, strayKills, wakelockCalls,
                    lockHolder, status >>

\* ---------------------------------------------------------- the wakelock
\* A wakelock step that does not look at the flag.
Caffeinate_Always ==
    /\ pc = "caffeinate"
    /\ wakelockCalls' = Append(wakelockCalls,
            WakelockCall(platform, ToStringLossy(program), TheOne(cmd)))
    /\ log' = IF caffeinate THEN Append(log, "wakelock") ELSE log
    /\ done' = IF caffeinate THEN done \cup {"wakelock"} ELSE done
    /\ pc' = "arc"
    /\ UNCHANGED << invocationVars, runVars, childVars, handlerVars, exitCode,
                    failedStep, sysCalls, spawnAttempts, cmd, lockHolder, status >>

\* main.rs:161-163: if opt.caffeinate { wakelock(&program.to_string_lossy(), cmd.id()) }
Caffeinate ==
    /\ pc = "caffeinate"
    /\ IF caffeinate
       THEN /\ wakelockCalls' = Append(wakelockCalls,
                    WakelockCall(platform, ToStringLossy(program), TheOne(cmd)))
            /\ log' = Append(log, "wakelock")
            /\ done' = done \cup {"wakelock"}
       ELSE UNCHANGED << wakelockCalls, log, done >>
    /\ pc' = "arc"
    /\ UNCHANGED << invocationVars, runVars, childVars, handlerVars, exitCode,
                    failedStep, sysCalls, spawnAttempts, cmd, lockHolder, status >>

\* main.rs:165: let arc = Arc::new(Mutex::new(cmd)); the handler is unix only.
MakeArc ==
    /\ pc = "arc"
    /\ lockHolder' = "none"
    /\ pc' = IF platform \in Unix THEN "set_handler" ELSE "lock"
    /\ UNCHANGED << invocationVars, runVars, childVars, handlerVars, exitCode,
                    failedStep, log, done, sysCalls, spawnAttempts, cmd,
                    wakelockCalls, status >>

\* ---------------------------------------------------- the signal forwarder
\* An installation whose failure is not propagated.
SetHandler_Unchecked ==
    /\ pc = "set_handler"
    /\ log' = Append(log, "handler")
    /\ \/ /\ handlerInstalled' = TRUE
          /\ hpc' = "idle"
          /\ done' = done \cup {"handler"}
       \/ UNCHANGED << handlerInstalled, hpc, done >>
    /\ pc' = "lock"
    /\ UNCHANGED << invocationVars, runVars, childVars, interrupts, pendingInts,
                    hLockPc,
                    hpid, sysCalls, spawnAttempts, cmd, wakelockCalls,
                    lockHolder, status, exitCode, failedStep >>

\* An installation whose failure is reported and then waited out.
SetHandler_WarnOnly ==
    /\ pc = "set_handler"
    /\ log' = Append(log, "handler")
    /\ \/ /\ handlerInstalled' = TRUE
          /\ hpc' = "idle"
          /\ done' = done \cup {"handler"}
          /\ UNCHANGED failedStep
       \/ /\ failedStep' = "handler"
          /\ UNCHANGED << handlerInstalled, hpc, done >>
    /\ pc' = "lock"
    /\ UNCHANGED << invocationVars, runVars, childVars, interrupts, pendingInts,
                    hLockPc,
                    hpid, sysCalls, spawnAttempts, cmd, wakelockCalls,
                    lockHolder, status, exitCode >>

\* main.rs:171-175: ctrlc::set_handler(..).context(..)?  On success a thread
\* waits for interrupts and runs the closure once for each.
SetHandler ==
    /\ pc = "set_handler"
    /\ log' = Append(log, "handler")
    /\ \/ /\ handlerInstalled' = TRUE
          /\ hpc' = "idle"
          /\ pc' = "lock"
          /\ done' = done \cup {"handler"}
          /\ UNCHANGED << exitCode, failedStep >>
       \/ /\ Fail("handler")
          /\ UNCHANGED << handlerInstalled, hpc, done >>
    /\ UNCHANGED << invocationVars, runVars, childVars, interrupts, pendingInts,
                    hLockPc,
                    hpid, sysCalls, spawnAttempts, cmd, wakelockCalls,
                    lockHolder, status >>

\* The handler thread takes the next caught interrupt and calls the closure.
HandlerWake ==
    /\ Alive
    /\ hpc = "idle"
    /\ pendingInts > 0
    /\ pendingInts' = pendingInts - 1
    /\ hpc' = "lock"
    /\ UNCHANGED << invocationVars, runVars, childVars, handlerInstalled,
                    interrupts, hpid, hLockPc, pc, exitCode, failedStep, log, done,
                    sysCalls, spawnAttempts, cmd, wakelockCalls, lockHolder,
                    status >>

\* A handler that does not wait for the mutex.
HandlerLock_NoWait ==
    /\ Alive
    /\ hpc = "lock"
    /\ lockHolder' = "handler"
    /\ hpc' = "read"
    /\ hLockPc' = Some(pc)
    /\ UNCHANGED << invocationVars, runVars, childVars, handlerInstalled,
                    interrupts, pendingInts, hpid, pc, exitCode, failedStep,
                    log, done, sysCalls, spawnAttempts, cmd, wakelockCalls,
                    status >>

\* main.rs:173: arc_handler.lock().unwrap() blocks until the mutex is free.
HandlerLock ==
    /\ Alive
    /\ hpc = "lock"
    /\ lockHolder = "none"
    /\ lockHolder' = "handler"
    /\ hpc' = "read"
    /\ hLockPc' = Some(pc)
    /\ UNCHANGED << invocationVars, runVars, childVars, handlerInstalled,
                    interrupts, pendingInts, hpid, pc, exitCode, failedStep,
                    log, done, sysCalls, spawnAttempts, cmd, wakelockCalls,
                    status >>

\* id() as i32: a u32 above i32::MAX wraps to a negative number.
AsI32(x) == IF x <= 2147483647 THEN x ELSE ((x - 2147483647) - 2147483647) - 2

\* A handler that takes the supervisor's own process id (here 1).
HandlerRead_OwnPid ==
    /\ Alive
    /\ hpc = "read"
    /\ hpid' = Some(1)
    /\ lockHolder' = "none"
    /\ hpc' = "kill"
    /\ UNCHANGED << invocationVars, runVars, childVars, handlerInstalled,
                    interrupts, pendingInts, hLockPc, pc, exitCode, failedStep, log,
                    done, sysCalls, spawnAttempts, cmd, wakelockCalls, status >>

\* main.rs:173: .id() under the guard; the guard is dropped at the end of
\* the let statement, before kill is called.
HandlerRead ==
    /\ Alive
    /\ hpc = "read"
    /\ hpid' = Some(AsI32(TheOne(cmd)))
    /\ lockHolder' = "none"
    /\ hpc' = "kill"
    /\ UNCHANGED << invocationVars, runVars, childVars, handlerInstalled,
                    interrupts, pendingInts, hLockPc, pc, exitCode, failedStep, log,
                    done, sysCalls, spawnAttempts, cmd, wakelockCalls, status >>

\* main.rs:174: kill(pid, SIGINT).context(..).unwrap().  The signal reaches
\* the child if it runs; it is accepted and dropped if the child is a zombie;
\* once the child is reaped the pid is free: kill fails with ESRCH and the
\* unwrap panics in the handler thread, or the pid has been given to another
\* process, which then gets the signal.
HandlerKill ==
    /\ Alive
    /\ hpc = "kill"
    /\ \/ /\ childState = "running"
          /\ childSigints' = childSigints + 1
          /\ hpc' = "idle"
          /\ UNCHANGED strayKills
       \/ /\ childState = "zombie"
          /\ hpc' = "idle"
          /\ UNCHANGED << childSigints, strayKills >>
       \/ /\ childState = "reaped"
          /\ \/ /\ hpc' = "dead"
                /\ UNCHANGED strayKills
             \/ /\ hpc' = "idle"
                /\ strayKills' = strayKills + 1
          /\ UNCHANGED childSigints
    /\ hpid' = None
    /\ hLockPc' = None
    /\ UNCHANGED << invocationVars, runVars, childState, childPid, childOutcome,
                    handlerInstalled, interrupts, pendingInts, pc, exitCode,
                    failedStep, log, done, sysCalls, spawnAttempts, cmd,
                    wakelockCalls, lockHolder, status >>

\* ------------------------------------------------------ the exit translator
\* main.rs:178: arc.lock().unwrap() blocks until the mutex is free; the guard
\* is a temporary of the let statement.
MainLock ==
    /\ pc = "lock"
    /\ lockHolder = "none"
    /\ lockHolder' = "main"
    /\ log' = Append(log, "wait")
    /\ pc' = "wait"
    /\ UNCHANGED << invocationVars, runVars, childVars, handlerVars, exitCode,
                    failedStep, done, sysCalls, spawnAttempts, cmd,
                    wakelockCalls, status >>

\* main.rs:178: .wait() returns once the child has terminated and reaps it;
\* the guard is dropped when the let statement ends.
WaitReturn ==
    /\ pc = "wait"
    /\ childState = "zombie"
    /\ childState' = "reaped"
    /\ status' = childOutcome
    /\ lockHolder' = "none"
    /\ done' = done \cup {"wait"}
    /\ pc' = "translate"
    /\ UNCHANGED << invocationVars, runVars, childPid, childOutcome,
                    childSigints, strayKills, handlerVars, exitCode, failedStep,
                    log, sysCalls, spawnAttempts, cmd, wakelockCalls >>

\* A wait failure after which the supervisor kills the child it cannot wait for.
WaitFail_KillChild ==
    /\ pc = "wait"
    /\ Fail("wait")
    /\ lockHolder' = "none"
    /\ IF childState = "running"
       THEN /\ childState' = "zombie"
            /\ childOutcome' = Signaled(9)
       ELSE UNCHANGED << childState, childOutcome >>
    /\ UNCHANGED << invocationVars, runVars, childPid, childSigints, strayKills,
                    handlerVars, log, done, sysCalls, spawnAttempts, cmd,
                    wakelockCalls, status >>

\* main.rs:178: .wait() returns an error: .context(..)? returns it from main.
WaitFail ==
    /\ pc = "wait"
    /\ Fail("wait")
    /\ lockHolder' = "none"
    /\ UNCHANGED << invocationVars, runVars, childVars, handlerVars, log, done,
                    sysCalls, spawnAttempts, cmd, wakelockCalls, status >>

\* A translator that reports 130 once an interrupt was caught.
Translate_Interrupted ==
    /\ pc = "translate"
    /\ exitCode' = IF interrupts > 0
                   THEN Some(130)
                   ELSE Some(ProcessExit(platform, ExitCodeOf(platform, status)))
    /\ log' = Append(log, "exit")
    /\ done' = done \cup {"exit"}
    /\ pc' = "exited"
    /\ UNCHANGED << invocationVars, runVars, childVars, handlerVars, failedStep,
                    sysCalls, spawnAttempts, cmd, wakelockCalls, lockHolder,
                    status >>

\* A translator that first waits for the handler thread to finish.
Translate_JoinHandler ==
    /\ pc = "translate"
    /\ hpc \in {"none", "dead"}
    /\ exitCode' = Some(ProcessExit(platform, ExitCodeOf(platform, status)))
    /\ log' = Append(log, "exit")
    /\ done' = done \cup {"exit"}
    /\ pc' = "exited"
    /\ UNCHANGED << invocationVars, runVars, childVars, handlerVars, failedStep,
                    sysCalls, spawnAttempts, cmd, wakelockCalls, lockHolder,
                    status >>

\* main.rs:180-191: process::exit with the translated status.
Translate ==
    /\ pc = "translate"
    /\ exitCode' = Some(ProcessExit(platform, ExitCodeOf(platform, status)))
    /\ log' = Append(log, "exit")
    /\ done' = done \cup {"exit"}
    /\ pc' = "exited"
    /\ UNCHANGED << invocationVars, runVars, childVars, handlerVars, failedStep,
                    sysCalls, spawnAttempts, cmd, wakelockCalls, lockHolder,
                    status >>

\* ---------------------------------------------------------- the environment
\* An interrupt (Ctrl-C) reaches the supervisor: ctrlc queues it for the
\* handler thread if the handler is installed; otherwise the default action
\* terminates the supervisor.
Interrupt ==
    /\ Alive
    /\ interrupts < MaxInterrupts
    /\ interrupts' = interrupts + 1
    /\ IF handlerInstalled
       THEN /\ pendingInts' = pendingInts + 1
            /\ UNCHANGED pc
       ELSE /\ pc' = "killed"
            /\ UNCHANGED pendingInts
    /\ UNCHANGED << invocationVars, runVars, childVars, handlerInstalled, hpc,
                    hLockPc,
                    hpid, exitCode, failedStep, log, done, sysCalls,
                    spawnAttempts, cmd, wakelockCalls, lockHolder, status >>

\* The child terminates, by exiting or (unix) by a signal.
ChildExit ==
    /\ childState = "running"
    /\ \E o \in Outcomes(platform) : childOutcome' = o
    /\ childState' = "zombie"
    /\ UNCHANGED << invocationVars, runVars, childPid, childSigints, strayKills,
                    handlerVars, pc, exitCode, failedStep, log, done, sysCalls,
                    spawnAttempts, cmd, wakelockCalls, lockHolder, status >>

\* The tool is invoked again with the same program and arguments; nothing of
\* the previous process carries over.
NextRun ==
    /\ ~Alive
    /\ run < MaxRuns
    /\ run' = run + 1
    /\ prev' = IF pc = "exited"
               THEN [valid |-> TRUE, outcome |-> childOutcome, exitCode |-> exitCode,
                     caffeinate |-> caffeinate, interrupted |-> interrupts > 0]
               ELSE NoPrev
    /\ caffeinate' \in BOOLEAN
    /\ UNCHANGED << platform, program >>
    /\ pc' = "nice"
    /\ exitCode' = None
    /\ failedStep' = "none"
    /\ log' = <<>>
    /\ done' = {}
    /\ sysCalls' = <<>>
    /\ spawnAttempts' = 0
    /\ cmd' = None
    /\ childState' = "none"
    /\ childPid' = None
    /\ childOutcome' = NoStatus
    /\ childSigints' = 0
    /\ strayKills' = 0
    /\ wakelockCalls' = <<>>
    /\ handlerInstalled' = FALSE
    /\ lockHolder' = "none"
    /\ status' = NoStatus
    /\ interrupts' = 0
    /\ pendingInts' = 0
    /\ hpc' = "none"
    /\ hpid' = None
    /\ hLockPc' = None

\* --------------------------------------------------------- specifications
MainStep ==
    \/ NiceLinuxCpu
    \/ NiceLinuxIo
    \/ NiceMacos
    \/ NiceWindows
    \/ Spawn
    \/ Caffeinate
    \/ MakeArc
    \/ SetHandler
    \/ MainLock
    \/ WaitReturn
    \/ Translate

HandlerStep ==
    \/ HandlerWake
    \/ HandlerLock
    \/ HandlerRead
    \/ HandlerKill

Next ==
    \/ MainStep
    \/ WaitFail
    \/ HandlerStep
    \/ Interrupt
    \/ ChildExit

\* One invocation of the tool.
Spec == Init /\ [][Next]_vars

\* The same, with both threads of the supervisor scheduled fairly.  Nothing
\* obliges the child to terminate or the user to interrupt.
FairSpec == Spec /\ WF_vars(MainStep) /\ WF_vars(HandlerStep)

\* Every value an ExitStatus can have as far as its accessors tell: a code,
\* a signal, or neither.
AnyStatus ==
    { Exited(c) : c \in ExitCodes } \cup { Signaled(s) : s \in Signals } \cup {NoStatus}

\* The main thread has just waited and holds an arbitrary ExitStatus.
InitTranslate ==
    /\ platform \in Platforms
    /\ caffeinate \in BOOLEAN
    /\ program \in Programs
    /\ run = 1
    /\ prev = NoPrev
    /\ pc = "translate"
    /\ status \in AnyStatus
    /\ childOutcome = status
    /\ childState = "reaped"
    /\ cmd = Some(7)
    /\ childPid = Some(7)
    /\ exitCode = None
    /\ failedStep = "none"
    /\ log = <<"adjust", "spawn", "wait">>
    /\ done = {"adjust", "spawn", "wait"}
    /\ sysCalls = <<>>
    /\ spawnAttempts = 1
    /\ childSigints = 0
    /\ strayKills = 0
    /\ wakelockCalls = <<>>
    /\ handlerInstalled = FALSE
    /\ lockHolder = "none"
    /\ interrupts = 0
    /\ pendingInts = 0
    /\ hpc = "none"
    /\ hpid = None
    /\ hLockPc = None

\* The exit translator alone, applied to every ExitStatus.
TranslateSpec == InitTranslate /\ [][Translate]_vars

NextRuns == Next \/ NextRun

\* Invocations of the tool in sequence.
SpecRuns == Init /\ [][NextRuns]_vars

\* ------------------------------------------------------------------ claims
Range(q) == { q[i] : i \in 1..Len(q) }

NonZeroExit == exitCode # None /\ exitCode # Some(0)

\* C1: whenever the supervisor exits after waiting for a child that ended
\* normally with exit code C, 0 <= C <= 255, its own exit code is exactly C,
\* whatever interrupts were delivered and whatever the caffeinate flag is.
ExitCodePropagated ==
    \A C \in 0..255 :
        (pc = "exited" /\ childOutcome.code = Some(C)) => exitCode = Some(C)

\* C1 witness: a run with the wakelock requested and an interrupt delivered
\* has exited after a child that ended with code 255.
ExitCodePropagatedWitness ==
    /\ pc = "exited"
    /\ childOutcome.code = Some(255)
    /\ caffeinate
    /\ interrupts > 0

\* C2: on unix, whenever the supervisor exits after waiting for a child that
\* was terminated by signal S, its own exit code is 128 + S.
SignalExitCode ==
    \A S \in Signals :
        (pc = "exited" /\ platform \in Unix /\ childOutcome = Signaled(S))
            => exitCode = Some(128 + S)

\* C2 witness: a unix run has exited after a child killed by signal 15.
SignalExitCodeWitness ==
    /\ pc = "exited"
    /\ platform \in Unix
    /\ childOutcome = Signaled(15)

\* The supervisor has caught n interrupts and the child has been running all
\* along (no interrupt before the handler is installed leaves it alive).
CaughtWhileRunning(n) ==
    /\ Alive
    /\ handlerInstalled
    /\ childState = "running"
    /\ interrupts = n

\* C3: an interrupt delivered once the handler is installed never terminates
\* the supervisor, and every interrupt caught while the child runs is
\* forwarded: the child receives a SIGINT for it while still running, unless
\* the child ends, or the supervisor fails, first.
InterruptForwarded ==
    /\ [](handlerInstalled => pc # "killed")
    /\ \A n \in 1..MaxInterrupts :
        CaughtWhileRunning(n) ~>
            (childSigints >= n \/ childState # "running" \/ ~Alive)

\* C4: after a failed spawn the supervisor has exited non-zero, has acquired
\* no wakelock, installed no handler, not waited, and has called spawn once.
SpawnFailureIsClean ==
    failedStep = "spawn" =>
        /\ pc = "failed"
        /\ NonZeroExit
        /\ wakelockCalls = <<>>
        /\ ~handlerInstalled
        /\ hpc = "none"
        /\ {"wakelock", "handler", "wait", "exit"} \cap Range(log) = {}
        /\ spawnAttempts = 1
        /\ cmd = None
        /\ childState = "none"

\* C4 witness: the spawn has failed with the wakelock requested.
SpawnFailureIsCleanWitness ==
    /\ failedStep = "spawn"
    /\ caffeinate
    /\ spawnAttempts = 1

\* C5: when the caffeinate flag is unset the wakelock routine is never
\* called, on any path.
NoWakelockUnlessAsked == ~caffeinate => wakelockCalls = <<>>

\* C5 witness: a run without the flag has gone past the wakelock step and
\* through the wait.
NoWakelockUnlessAskedWitness ==
    /\ ~caffeinate
    /\ "wait" \in Range(log)
    /\ ~Alive

\* s contains sub as a contiguous run of characters.
Contains(s, sub) ==
    \E i \in 0..(Len(s) - Len(sub)) : SubSeq(s, i + 1, i + Len(sub)) = sub

AdjustFailureSpawnsNothing ==
    (\E i \in 1..Len(sysCalls) : sysCalls[i].failed /\ sysCalls[i].errno # 0) =>
        /\ pc = "failed"
        /\ failedStep = "adjust"
        /\ NonZeroExit
        /\ spawnAttempts = 0
        /\ cmd = None
        /\ childState = "none"

\* C7 witness: on Linux the CPU step succeeded and the I/O step failed with
\* a non-zero OS error.
AdjustFailureSpawnsNothingWitness ==
    /\ platform = "linux"
    /\ Len(sysCalls) = 2
    /\ ~sysCalls[1].failed
    /\ sysCalls[2].call = "ioprio_set"
    /\ sysCalls[2].failed
    /\ sysCalls[2].errno # 0

Steps == <<"adjust", "spawn", "wakelock", "handler", "wait", "exit">>
Rank(s) == CHOOSE i \in 1..Len(Steps) : Steps[i] = s

\* The steps this run has to take: the wakelock only if requested, the
\* handler only where the platform has one (unix).
Applies(s) ==
    CASE s = "wakelock" -> caffeinate
      [] s = "handler" -> platform \in Unix
      [] OTHER -> TRUE

\* C8: whenever main starts a step, it has started no step of the same or a
\* later rank, no step has failed, and every earlier step of this run has
\* completed successfully; the wakelock step starts only if requested.
StepsInOrder ==
    [][ log' # log =>
          \E s \in Range(Steps) :
              /\ log' = Append(log, s)
              /\ Applies(s)
              /\ failedStep = "none"
              /\ \A t \in Range(log) : Rank(t) < Rank(s)
              /\ \A t \in Range(Steps) :
                    (Rank(t) < Rank(s) /\ Applies(t)) => t \in done ]_vars

\* C8 witness: a unix run with the wakelock requested has taken all six
\* steps.
StepsInOrderWitness ==
    /\ log = Steps
    /\ done = Range(Steps)
    /\ pc = "exited"

\* C9: there is at most one Child handle; the handler is installed and the
\* wait begun only once it exists; it belongs to the one child spawned; the
\* pids the handler and the wakelock read are its pid; and once created it
\* is never replaced.
OneChildHandle ==
    /\ [] /\ Cardinality(cmd) <= 1
          /\ spawnAttempts <= 1
          /\ (handlerInstalled \/ hpc # "none") => cmd # None
          /\ pc \in {"lock", "wait", "translate", "exited"} => cmd # None
          /\ cmd # None => cmd = childPid
          /\ hpid # None => hpid = cmd
          /\ \A i \in 1..Len(wakelockCalls) : Some(wakelockCalls[i].pid) = cmd
    /\ [][cmd # None => cmd' = cmd]_vars

\* C9 witness: the wakelock was taken, the handler has read the pid and the
\* main thread is waiting.
OneChildHandleWitness ==
    /\ wakelockCalls # <<>>
    /\ hpid # None
    /\ pc = "wait"

\* C10: two invocations of the same program that both exit after waiting for
\* a child with the same outcome exit with the same code, whatever the
\* caffeinate flag and the interrupts of either invocation.
SameOutcomeSameExit ==
    (prev.valid /\ pc = "exited" /\ childOutcome = prev.outcome)
        => exitCode = prev.exitCode

\* C10 witness: the second invocation has ended with the same outcome as the
\* first, with the other caffeinate flag and the other interrupt history.
SameOutcomeSameExitWitness ==
    /\ prev.valid
    /\ pc = "exited"
    /\ childOutcome = prev.outcome
    /\ caffeinate # prev.caffeinate
    /\ (interrupts > 0) # prev.interrupted

\* C11: the mutex around the Child is never held across the blocking wait:
\* while the main thread is blocked in wait() the lock is free, so that the
\* handler can acquire it.
LockFreeDuringWait == pc = "wait" => lockHolder = "none"

\* C12: once the handler's kill has failed, the whole supervisor has been
\* terminated abnormally: it is not running any more and has not exited
\* through the exit translator.
KillFailureEndsSupervisor == hpc = "dead" => (~Alive /\ pc # "exited")

\* C13: the handler never sends SIGINT to the child's pid after the main
\* thread's wait has reaped the child: no kill has failed for want of the
\* process, and none has hit a pid that is no longer the child's.
HandlerNeverUsesReapedChild == hpc # "dead" /\ strayKills = 0

\* C14: when the status carries no exit code, the supervisor exits with a
\* fixed fallback: on unix 137 (128 + 9) if the status carries no signal
\* either, on Windows 127.
FallbackExitCode ==
    (pc = "exited" /\ status.code = None) =>
        /\ (platform \in Unix /\ status.signal = None) => exitCode = Some(137)
        /\ platform = "windows" => exitCode = Some(127)

\* C14 witness: a unix supervisor has exited on a status with neither a code
\* nor a signal.
FallbackExitCodeWitness ==
    /\ pc = "exited"
    /\ platform = "linux"
    /\ status = NoStatus

HandlerFailureBeforeWait ==
    failedStep = "handler" =>
        /\ pc = "failed"
        /\ NonZeroExit
        /\ exitCode = Some(1)
        /\ {"wait", "exit"} \cap Range(log) = {}
        /\ lockHolder = "none"
        /\ status = NoStatus
        /\ childState # "reaped"
        /\ ~handlerInstalled

\* C16 witness: the installation failed although the child had already
\* terminated and could have been waited for.
HandlerFailureBeforeWaitWitness ==
    /\ failedStep = "handler"
    /\ childState = "zombie"

\* C17: every use of the Child handle is made while holding the mutex: the
\* read of its id for the wakelock description (by the main thread), the
\* read of its id by the handler, the handler's signal to the child, and the
\* main thread's wait.
HandleUsedUnderLock ==
    [][ /\ wakelockCalls' # wakelockCalls => lockHolder = "main"
        /\ (hpc = "read" /\ hpc' = "kill") => lockHolder = "handler"
        /\ (hpc = "kill" /\ hpc' # "kill") => lockHolder = "handler"
        /\ (pc = "wait" /\ pc' \in {"translate", "failed"}) => lockHolder = "main"
      ]_vars

\* C18: once the main thread waits with the handler installed and the child
\* has terminated, the supervisor eventually exits with the code translated
\* from the child's outcome (unless wait itself fails), whatever the handler
\* thread is doing: queued, blocked on the lock, signalling, or panicked.
SupervisorExitsAfterChild ==
    (handlerInstalled /\ pc = "wait" /\ childState = "zombie") ~>
        \/ /\ pc = "exited"
           /\ exitCode = IF childOutcome.code # None
                         THEN childOutcome.code
                         ELSE Some(128 + TheOne(childOutcome.signal))
        \/ failedStep = "wait"

\* C18 witness: the supervisor has exited although one handler invocation
\* had panicked and another interrupt was still queued.
SupervisorExitsAfterChildWitness ==
    /\ pc = "exited"
    /\ hpc = "dead"
    /\ pendingInts > 0

\* The handler reads the Child's id.
HandlerReads == hpc = "read" /\ hpc' = "kill"

\* The handler calls kill.
HandlerSends == hpc = "kill" /\ hpc' # "kill"

\* The handler's SIGINT reaches the running child.
HandlerDelivers == childSigints' > childSigints

ErrorPathsLeaveChildAlone ==
    /\ [] /\ childSigints + strayKills <= interrupts
          /\ (childSigints + strayKills > 0) => handlerInstalled
          /\ failedStep \in {"handler", "wait"} =>
                /\ pc = "failed"
                /\ childState \in {"running", "zombie"}
                /\ status = NoStatus
          /\ failedStep = "handler" => (childSigints = 0 /\ strayKills = 0)
    /\ [][failedStep' # failedStep => UNCHANGED childVars]_vars
    /\ [][~Alive => (childSigints' = childSigints /\ strayKills' = strayKills
                     /\ (childState = "running" => childState' # "reaped"))]_vars

\* C20 witness: the wait has failed and the child is still running.
ErrorPathsLeaveChildAloneWitness ==
    /\ failedStep = "wait"
    /\ childState = "running"
    /\ childSigints = 0
=============================================================================
